---- MODULE Spec2Model ----
(***************************************************************************)
(* Canvas quiz export to per-student LaTeX/PDF (canvas_to_latex.py).       *)
(*                                                                         *)
(* A string is a sequence of one-character strings (<<"a", "&">>); a few   *)
(* fixed words that the code only compares or prefix-tests as a whole      *)
(* (column labels, "essay", "Graded") are one-element sequences holding    *)
(* the word.  A missing cell (pandas NaN) is the one-element sequence NA.  *)
(*                                                                         *)
(* Specifications:                                                         *)
(*   Spec       main(): validation, parsing, the per-student loop,         *)
(*              compile_pdf and the summary                                *)
(*   SpecParse  CanvasQuizParser on bounded header lists and data frames   *)
(*   SpecConv   HTMLToLatexConverter.html_to_latex on bounded inputs       *)
(***************************************************************************)
EXTENDS Integers, Sequences, FiniteSets, TLC

VARIABLES
    \* ---- main() ----
    pc,            \* position of main()
    args,          \* the command line and the files it names
    parsed,        \* parser.parse() has run
    students,      \* result of get_student_data
    nrows,         \* number of data rows of the input
    dirs_created,  \* LaTeXGenerator.__init__ made the output directories
    idx,           \* enumerate(students, 1) position
    latex_files,   \* latex_dir: file name -> content
    pdf_files,     \* pdf_dir: set of file names
    success_count,
    pdf_success_count,
    runs,          \* compiler invocations of the compile_pdf call in progress
    outcome,       \* per student: what the loop body did for it
    exit_code,     \* -1 while running
    summary,       \* the numbers printed by the final panel
    \* ---- CanvasQuizParser on its own ----
    p_pc, p_columns, p_df, p_limit, p_questions, p_students,
    \* ---- html_to_latex on its own ----
    c_pc, c_in, c_out, c_out2

main_vars == <<pc, args, parsed, students, nrows, dirs_created, idx, latex_files,
               pdf_files, success_count, pdf_success_count, runs, outcome,
               exit_code, summary>>
parse_vars == <<p_pc, p_columns, p_df, p_limit, p_questions, p_students>>
conv_vars == <<c_pc, c_in, c_out, c_out2>>
vars == <<main_vars, parse_vars, conv_vars>>

(***************************************************************************)
(* Bounds                                                                  *)
(***************************************************************************)
MaxRows == 2
MaxDfRows == 1
MaxPlainLen == 3
MaxNumLen == 6
MaxNodes == 2

(***************************************************************************)
(* Strings                                                                 *)
(***************************************************************************)
NA == <<"NaN">>
Space == " "
NL == "\n"
TAB == "\t"
NBSP == "nbsp"
EMSP == "emsp"
ENSP == "ensp"
BSL == "\\"

\* str.isspace() and \s for the characters of the model
Whitespace == {Space, NL, TAB, NBSP, EMSP, ENSP}
IsSpace(ch) == ch \in Whitespace

RECURSIVE LStrip(_)
LStrip(s) == IF s # <<>> /\ IsSpace(Head(s)) THEN LStrip(Tail(s)) ELSE s

RECURSIVE RStrip(_)
RStrip(s) ==
    IF s # <<>> /\ IsSpace(s[Len(s)]) THEN RStrip(SubSeq(s, 1, Len(s) - 1)) ELSE s

\* str.strip()
Strip(s) == RStrip(LStrip(s))

\* str.startswith(p)
StartsWith(s, p) == Len(s) >= Len(p) /\ SubSeq(s, 1, Len(p)) = p

\* ch in s
Contains(s, ch) == \E i \in 1..Len(s) : s[i] = ch

RECURSIVE Concat(_)
Concat(ss) == IF ss = <<>> THEN <<>> ELSE Head(ss) \o Concat(Tail(ss))

\* all sequences over S of length 0..n
SeqsUpTo(S, n) == UNION {[1..k -> S] : k \in 0..n}

(***************************************************************************)
(* CanvasQuizParser                                                        *)
(***************************************************************************)
L_Name == <<"Name">>
L_ID == <<"ID">>
L_ItemID == <<"ItemID">>
L_ItemID1 == <<"ItemID", ".", "1">>
L_ItemType == <<"ItemType">>
L_Points == <<"EarnedPoints">>
L_Status == <<"Status">>
L_Q1 == <<"Q1">>
L_Q2 == <<"Q2">>
L_Other == <<"Section">>

\* One entry of self.questions; column numbers are the code's 0-based ones.
QInfo(columns, i) ==
    [text |-> columns[i + 3], item_type_col |-> i + 1, question_col |-> i + 2,
     earned_points_col |-> i + 3, status_col |-> i + 4]

\* The scan of _extract_questions_from_headers from column i (0-based) on;
\* the result lists the registered groups in insertion order of the dict.
RECURSIVE ScanHeaders(_, _)
ScanHeaders(columns, i) ==
    IF ~(i < Len(columns)) THEN <<>>
    ELSE IF StartsWith(columns[i + 1], L_ItemID) /\ i + 4 < Len(columns)
         THEN (IF /\ StartsWith(columns[i + 2], L_ItemType)
                  /\ StartsWith(columns[i + 4], L_Points)
                  /\ StartsWith(columns[i + 5], L_Status)
               THEN <<QInfo(columns, i)>>
               ELSE <<>>) \o ScanHeaders(columns, i + 5)
         ELSE ScanHeaders(columns, i + 1)

ExtractQuestions(columns) == ScanHeaders(columns, 0)

\* row.iloc[c]
Cell(row, c) == row[c + 1]

\* row['Name'], row['ID']: the first column with that label
ColumnOf(columns, label) ==
    CHOOSE i \in 1..Len(columns) :
        columns[i] = label /\ \A j \in 1..(i - 1) : columns[j] # label

HasColumn(columns, label) == \E i \in 1..Len(columns) : columns[i] = label

\* the condition of lines 293-296 without the test of Status
IsAnsweredAnyStatus(row, q) ==
    /\ Cell(row, q.item_type_col) = <<"essay">>
    /\ Cell(row, q.question_col) # NA
    /\ Strip(Cell(row, q.question_col)) # <<>>

\* the condition of lines 293-296
IsAnswered(row, q) ==
    /\ Cell(row, q.item_type_col) = <<"essay">>
    /\ Cell(row, q.status_col) = <<"Graded">>
    /\ Cell(row, q.question_col) # NA
    /\ Strip(Cell(row, q.question_col)) # <<>>

\* the inner loop over self.questions.items() for one row
RECURSIVE QuestionsAnswered(_, _)
QuestionsAnswered(row, questions) ==
    IF questions = <<>> THEN <<>>
    ELSE (IF IsAnswered(row, Head(questions))
          THEN <<[question_text |-> Head(questions).text,
                  answer |-> Cell(row, Head(questions).question_col)]>>
          ELSE <<>>) \o QuestionsAnswered(row, Tail(questions))

\* --limit: None (given = FALSE) or an int
NoLimit == [given |-> FALSE, n |-> 0]
Limit(n) == [given |-> TRUE, n |-> n]

\* df.head(n)
Head_(df, n) ==
    IF n >= 0 THEN SubSeq(df, 1, IF n < Len(df) THEN n ELSE Len(df))
    ELSE SubSeq(df, 1, IF Len(df) + n > 0 THEN Len(df) + n ELSE 0)

\* df.head(limit) if limit else df: None and 0 are both falsy
RowsToProcess(df, limit) ==
    IF limit.given /\ limit.n # 0 THEN Head_(df, limit.n) ELSE df

\* the outer loop of get_student_data over the rows
RECURSIVE StudentsOf(_, _, _)
StudentsOf(rows, columns, questions) ==
    IF rows = <<>> THEN <<>>
    ELSE LET row == Head(rows)
             qa == QuestionsAnswered(row, questions)
         IN (IF qa # <<>>
             THEN <<[name |-> row[ColumnOf(columns, L_Name)],
                     id |-> row[ColumnOf(columns, L_ID)],
                     questions |-> qa]>>
             ELSE <<>>) \o StudentsOf(Tail(rows), columns, questions)

\* row['Name'] / row['ID'] raise KeyError on the first row when the column
\* is absent
GetStudentDataRaises(df, columns, limit) ==
    /\ RowsToProcess(df, limit) # <<>>
    /\ ~(HasColumn(columns, L_Name) /\ HasColumn(columns, L_ID))

GetStudentData(df, columns, questions, limit) ==
    StudentsOf(RowsToProcess(df, limit), columns, questions)

(***************************************************************************)
(* HTMLToLatexConverter                                                    *)
(***************************************************************************)
Digits == {"0", "1", "2", "3", "4", "5", "6", "7", "8", "9"}
Letters == {"a", "b", "c", "d", "e", "f", "i", "k", "l", "n", "o", "q", "r", "s",
            "t", "u", "x", "y", "A", "B", "C", "D"}
IsDigit(ch) == ch \in Digits
\* \w
IsWord(ch) == ch \in Letters \cup Digits \cup {"_"}

\* LATEX_SPECIAL_CHARS
LATEX_SPECIAL_CHARS ==
    [ch \in {"&", "%", "$", "#", "_", "{", "}", "~", "^", BSL} |->
        CASE ch = "&" -> <<BSL, "&">>
          [] ch = "%" -> <<BSL, "%">>
          [] ch = "$" -> <<BSL, "$">>
          [] ch = "#" -> <<BSL, "#">>
          [] ch = "_" -> <<BSL, "_">>
          [] ch = "{" -> <<BSL, "{">>
          [] ch = "}" -> <<BSL, "}">>
          [] ch = "~" -> <<BSL, "t", "e", "x", "t", "a", "s", "c", "i", "i",
                           "t", "i", "l", "d", "e", "{", "}">>
          [] ch = "^" -> <<BSL, "t", "e", "x", "t", "a", "s", "c", "i", "i",
                           "c", "i", "r", "c", "u", "m", "{", "}">>
          [] ch = BSL -> <<BSL, "t", "e", "x", "t", "b", "a", "c", "k", "s",
                           "l", "a", "s", "h", "{", "}">>]

\* str.replace(pat, rep): leftmost occurrences, not overlapping
RECURSIVE Replace(_, _, _)
Replace(s, pat, rep) ==
    IF s = <<>> THEN <<>>
    ELSE IF StartsWith(s, pat)
         THEN rep \o Replace(SubSeq(s, Len(pat) + 1, Len(s)), pat, rep)
         ELSE <<Head(s)>> \o Replace(Tail(s), pat, rep)

\* lines 91-93 and 160-162
NormalizeSpaces(s) ==
    Replace(Replace(Replace(s, <<NBSP>>, <<Space>>), <<EMSP>>, <<Space>>),
            <<ENSP>>, <<Space>>)

\* the length of the longest prefix of s made of characters of S
RECURSIVE RunLen(_, _)
RunLen(s, S) == IF s # <<>> /\ Head(s) \in S THEN 1 + RunLen(Tail(s), S) ELSE 0

\* the length of the longest prefix of s free of the character ch
RECURSIVE RunLenUntil(_, _)
RunLenUntil(s, ch) ==
    IF s # <<>> /\ Head(s) # ch THEN 1 + RunLenUntil(Tail(s), ch) ELSE 0

\* re.sub(r'  +', ' ', text)
RECURSIVE CollapseSpaces(_)
CollapseSpaces(s) ==
    IF s = <<>> THEN <<>>
    ELSE LET n == RunLen(s, {Space})
         IN IF n >= 2 THEN <<Space>> \o CollapseSpaces(SubSeq(s, n + 1, Len(s)))
            ELSE <<Head(s)>> \o CollapseSpaces(Tail(s))

\* the length of the match of \d+\.\s+ at the start of s, 0 when there is none
NumberedMatch(s) ==
    LET d == RunLen(s, Digits)
        w == RunLen(SubSeq(s, d + 2, Len(s)), Whitespace)
    IN IF d >= 1 /\ Len(s) >= d + 2 /\ s[d + 1] = "." /\ w >= 1
       THEN d + 1 + w ELSE 0

\* re.search(r'\d+\.\s+', text)
RECURSIVE HasNumbered(_)
HasNumbered(s) == s # <<>> /\ (NumberedMatch(s) > 0 \/ HasNumbered(Tail(s)))

\* re.sub(r'(\d+\.\s+)', r'\n\1', text)
RECURSIVE BreakNumbered(_)
BreakNumbered(s) ==
    IF s = <<>> THEN <<>>
    ELSE LET m == NumberedMatch(s)
         IN IF m > 0
            THEN <<NL>> \o SubSeq(s, 1, m) \o BreakNumbered(SubSeq(s, m + 1, Len(s)))
            ELSE <<Head(s)>> \o BreakNumbered(Tail(s))

\* lines 100-104 and 172-176 without the strip() of the leading newline
NumberedLinesUnstripped(text) ==
    IF HasNumbered(text) THEN BreakNumbered(text) ELSE text

\* lines 100-104 and 172-176
NumberedLines(text) ==
    IF HasNumbered(text) THEN Strip(BreakNumbered(text)) ELSE text

\* text.replace(ch, LATEX_SPECIAL_CHARS[ch]) for each ch of chars, in order
RECURSIVE EscapeEach(_, _)
EscapeEach(text, chars) ==
    IF chars = <<>> THEN text
    ELSE EscapeEach(Replace(text, <<Head(chars)>>, LATEX_SPECIAL_CHARS[Head(chars)]),
                    Tail(chars))

\* lines 107-116
EscapePlain(text) ==
    IF Contains(text, BSL) \/ Contains(text, "$")
    THEN EscapeEach(text, <<"&", "%", "#">>)
    ELSE EscapeEach(text, <<"&", "%", "$", "#", "_">>)

\* text.split('\n')
RECURSIVE Split(_, _)
Split(s, sep) ==
    LET n == RunLenUntil(s, sep)
    IN IF n = Len(s) THEN <<s>>
       ELSE <<SubSeq(s, 1, n)>> \o Split(SubSeq(s, n + 2, Len(s)), sep)

\* sep.join(parts)
RECURSIVE Join(_, _)
Join(parts, sep) ==
    IF parts = <<>> THEN <<>>
    ELSE IF Len(parts) = 1 THEN parts[1]
    ELSE parts[1] \o sep \o Join(Tail(parts), sep)

Quad == <<BSL, "q", "u", "a", "d", Space>>
FourSpaces == <<Space, Space, Space, Space>>

\* lines 119-123
AlgorithmBlock(text, is_question) ==
    IF is_question /\ Contains(text, NL)
    THEN LET lines == Split(text, NL)
         IN Join([i \in 1..Len(lines) |-> Replace(lines[i], FourSpaces, Quad)],
                 <<NL, NL>>)
    ELSE text

\* lines 86-125: the input holds no '<'
PlainToLatex(html_content, is_question) ==
    AlgorithmBlock(
        EscapePlain(NumberedLines(CollapseSpaces(NormalizeSpaces(Strip(html_content))))),
        is_question)

\* An HTML input is the list of the nodes of its body as html5lib builds it:
\* text, <img>, <strong>/<b>/<em>/<i>/<sub>/<sup> holding text, and <p> holding
\* such nodes.
Node(kind, text, eq, dec, title, children) ==
    [kind |-> kind, text |-> text, eq |-> eq, dec |-> dec, title |-> title,
     children |-> children]
T(text) == Node("text", text, FALSE, <<>>, <<>>, <<>>)
\* <img class="equation_image"> when eq; data-equation-content, title ('' when
\* the attribute is absent)
Img(eq, dec, title) == Node("img", <<>>, eq, dec, title, <<>>)
Tag(kind, text) == Node(kind, text, FALSE, <<>>, <<>>, <<>>)
P(children) == Node("p", <<>>, FALSE, <<>>, <<>>, children)

\* convert_equation_image
convert_equation_image(img_tag) ==
    IF img_tag.dec # <<>>
    THEN (IF ~StartsWith(img_tag.dec, <<"$">>)
          THEN <<"$">> \o img_tag.dec \o <<"$">> ELSE img_tag.dec)
    ELSE IF img_tag.title # <<>>
    THEN (IF ~StartsWith(img_tag.title, <<"$">>)
          THEN <<"$">> \o img_tag.title \o <<"$">> ELSE img_tag.title)
    ELSE <<>>

\* lines 131-149: the strings a node that is not a <p> leaves in the tree
InlineStrings(node) ==
    CASE node.kind = "text" -> <<node.text>>
      [] node.kind = "img" ->
            IF node.eq THEN <<<<Space>> \o convert_equation_image(node) \o <<Space>>>>
            ELSE <<>>
      [] node.kind \in {"strong", "b"} ->
            <<<<BSL, "t", "e", "x", "t", "b", "f", "{">> \o node.text \o <<"}">>>>
      [] node.kind \in {"em", "i"} ->
            <<<<BSL, "t", "e", "x", "t", "i", "t", "{">> \o node.text \o <<"}">>>>
      [] node.kind = "sub" -> <<<<"$", "_", "{">> \o node.text \o <<"}", "$">>>>
      [] node.kind = "sup" -> <<<<"$", "^", "{">> \o node.text \o <<"}", "$">>>>

RECURSIVE InlineStringsOf(_)
InlineStringsOf(nodes) ==
    IF nodes = <<>> THEN <<>>
    ELSE InlineStrings(Head(nodes)) \o InlineStringsOf(Tail(nodes))

\* lines 152-154: a <p> gets '\n' appended after its children
RECURSIVE Strings(_)
Strings(nodes) ==
    IF nodes = <<>> THEN <<>>
    ELSE (IF Head(nodes).kind = "p"
          THEN InlineStringsOf(Head(nodes).children) \o <<<<NL>>>>
          ELSE InlineStrings(Head(nodes))) \o Strings(Tail(nodes))

\* soup.get_text(separator=' ')
get_text(nodes) == Join(Strings(nodes), <<Space>>)

\* the largest k <= n with s[k] = ch, 0 when there is none
RECURSIVE LastIndex(_, _, _)
LastIndex(s, n, ch) ==
    IF n = 0 THEN 0 ELSE IF s[n] = ch THEN n ELSE LastIndex(s, n - 1, ch)

\* re.sub(r'\n\s*\n', '\n\n', text)
RECURSIVE ParagraphBreaks(_)
ParagraphBreaks(s) ==
    IF s = <<>> THEN <<>>
    ELSE LET k == IF Head(s) = NL
                  THEN LastIndex(Tail(s), RunLen(Tail(s), Whitespace), NL) ELSE 0
         IN IF k > 0
            THEN <<NL, NL>> \o ParagraphBreaks(SubSeq(s, k + 2, Len(s)))
            ELSE <<Head(s)>> \o ParagraphBreaks(Tail(s))

\* the match of \([^)]*\^[^)]*\)(?:\^\d+)? at the start of s:
\* [close |-> position of ')', exp |-> number of digits of the exponent],
\* close = 0 when there is none
ParenMatch(s) ==
    LET c == IF s # <<>> /\ Head(s) = "(" THEN RunLenUntil(Tail(s), ")") ELSE 0
        ok == /\ s # <<>> /\ Head(s) = "("
              /\ Len(s) >= c + 2
              /\ Contains(SubSeq(s, 2, c + 1), "^")
        d == IF ok /\ Len(s) >= c + 3 /\ s[c + 3] = "^"
             THEN RunLen(SubSeq(s, c + 4, Len(s)), Digits) ELSE 0
    IN [close |-> IF ok THEN c + 2 ELSE 0, exp |-> d]

\* the length of the match of \w\^[\w/]+ at the start of s, 0 when none
SimpleMatch(s) ==
    LET r == RunLen(SubSeq(s, 3, Len(s)), Letters \cup Digits \cup {"_", "/"})
    IN IF Len(s) >= 3 /\ IsWord(s[1]) /\ s[2] = "^" /\ r >= 1 THEN 2 + r ELSE 0

\* lines 180-195: re.sub of the two patterns with convert_math_expr
RECURSIVE ConvertMathExprs(_)
ConvertMathExprs(s) ==
    IF s = <<>> THEN <<>>
    ELSE LET pm == ParenMatch(s)
             sm == SimpleMatch(s)
         IN IF pm.close > 0
            THEN LET len == pm.close + (IF pm.exp > 0 THEN 1 + pm.exp ELSE 0)
                 IN <<"$">> \o SubSeq(s, 1, pm.close)
                    \o (IF pm.exp > 0
                        THEN <<"^", "{">> \o SubSeq(s, pm.close + 2, len) \o <<"}">>
                        ELSE <<>>)
                    \o <<"$">> \o ConvertMathExprs(SubSeq(s, len + 1, Len(s)))
            ELSE IF sm > 0
            THEN <<"$">> \o SubSeq(s, 1, sm) \o <<"$">>
                 \o ConvertMathExprs(SubSeq(s, sm + 1, Len(s)))
            ELSE <<Head(s)>> \o ConvertMathExprs(Tail(s))

\* re.search(r'\$.*\$', text): two '$' with no line break between them
HasMathSpan(text) ==
    \E i, j \in 1..Len(text) :
        /\ i < j /\ text[i] = "$" /\ text[j] = "$"
        /\ \A k \in (i + 1)..(j - 1) : text[k] # NL

\* lines 198-207
EscapeHtml(text) ==
    IF Contains(text, BSL) \/ HasMathSpan(text)
    THEN EscapeEach(text, <<"&", "%", "#">>)
    ELSE EscapeEach(text, <<"&", "%", "$", "#", "_">>)

\* lines 128-209: the input holds a '<'
HtmlToLatex(nodes) ==
    EscapeHtml(ConvertMathExprs(NumberedLines(Strip(CollapseSpaces(
        ParagraphBreaks(NormalizeSpaces(get_text(nodes))))))))

\* html_to_latex; an input is [html, text, nodes, is_question]
html_to_latex(inp) ==
    IF inp.html THEN HtmlToLatex(inp.nodes)
    ELSE IF inp.text = <<>> \/ inp.text = NA THEN <<>>
    ELSE PlainToLatex(inp.text, inp.is_question)

PlainInput(text, is_question) ==
    [html |-> FALSE, text |-> text, nodes |-> <<>>, is_question |-> is_question]
HtmlInput(nodes, is_question) ==
    [html |-> TRUE, text |-> <<>>, nodes |-> nodes, is_question |-> is_question]

(***************************************************************************)
(* Inputs of the parser                                                    *)
(***************************************************************************)
N_AB == <<"A", "B">>
N_ASlashB == <<"A", "/", "B">>
N_C == <<" ", "C">>

\* the values a cell under a given header can hold; rich widens the answer
\* cells (SpecParse), the names are widened for main()
CellsFor(label, rich) ==
    IF label = L_Name THEN (IF rich THEN {N_AB} ELSE {N_AB, N_ASlashB, N_C, NA})
    ELSE IF label = L_ItemType
         THEN (IF rich THEN {<<"essay">>, <<"Essay">>} ELSE {<<"essay">>})
    ELSE IF label = L_Status THEN {<<"Graded">>, <<"Ungraded">>}
    ELSE IF label \in {L_Q1, L_Q2}
         THEN (IF rich THEN {NA, <<Space>>, <<"a", Space>>} ELSE {<<"a">>})
    ELSE {<<"x">>}

RECURSIVE Rows(_, _)
Rows(columns, rich) ==
    IF columns = <<>> THEN {<<>>}
    ELSE {<<c>> \o r : c \in CellsFor(Head(columns), rich),
                       r \in Rows(Tail(columns), rich)}

Group(q) == <<L_ItemID, L_ItemType, q, L_Points, L_Status>>
H_One == <<L_Name, L_ID>> \o Group(L_Q1)
H_Two == <<L_Name, L_ID>> \o Group(L_Q1) \o
         <<L_ItemID1, L_ItemType, L_Q2, L_Points, L_Status>>
H_NoName == <<L_Other, L_ID>> \o Group(L_Q1)

(***************************************************************************)
(* LaTeXGenerator                                                          *)
(***************************************************************************)
\* re.sub(r'[<>:"/\\|?*]', '', name)
Unsafe == {"<", ">", ":", "\"", "/", BSL, "|", "?", "*"}

\* sanitize_filename
sanitize_filename(name) == Strip(SelectSeq(name, LAMBDA ch : ch \notin Unsafe))

\* generate_questions_section: one numbered section per question, numbered
\* from 1 in list order (the converted texts are html_to_latex of the two
\* fields, modelled under SpecConv)
generate_questions_section(questions) ==
    [i \in 1..Len(questions) |->
        [number |-> i, question_text |-> questions[i].question_text,
         answer |-> questions[i].answer]]

\* the template after the four replacements
Document(i, student) ==
    [student |-> i, complete |-> TRUE, name |-> student.name, id |-> student.id,
     sections |-> generate_questions_section(student.questions)]

\* open(filepath, 'w') truncated the file and f.write raised
Truncated(i, student) ==
    [student |-> i, complete |-> FALSE, name |-> student.name, id |-> student.id,
     sections |-> <<>>]

\* writing a file replaces whatever had that name
WriteFile(files, filename, content) ==
    {f \in files : f.name # filename} \cup {[name |-> filename, content |-> content]}

TexName(student) == sanitize_filename(student.name) \o <<".tex">>
PdfName(student) == sanitize_filename(student.name) \o <<".pdf">>

(***************************************************************************)
(* main()                                                                  *)
(***************************************************************************)
Limits == {NoLimit} \cup {Limit(n) : n \in 0..(MaxRows - 1)}
Args == [csv_exists : BOOLEAN, template_exists : BOOLEAN, no_pdf : BOOLEAN,
         limit : Limits, columns : {H_One, H_Two, H_NoName}]

MainInit ==
    /\ pc = "check_csv"
    /\ args \in Args
    /\ parsed = FALSE
    /\ students = <<>>
    /\ nrows = 0
    /\ dirs_created = FALSE
    /\ idx = 0
    /\ latex_files = {}
    /\ pdf_files = {}
    /\ success_count = 0
    /\ pdf_success_count = 0
    /\ runs = <<>>
    /\ outcome = <<>>
    /\ exit_code = -1
    /\ summary = [generated |-> 0, compiled |-> 0, total |-> 0, shown |-> FALSE]

Exit(code) == pc' = "exit" /\ exit_code' = code

\* lines 506-508
CheckCsv ==
    /\ pc = "check_csv"
    /\ IF ~args.csv_exists
       THEN Exit(1)
       ELSE pc' = "check_template" /\ UNCHANGED exit_code
    /\ UNCHANGED <<args, parsed, students, nrows, dirs_created, idx, latex_files,
                   pdf_files, success_count, pdf_success_count, runs, outcome,
                   summary>>
    /\ UNCHANGED <<parse_vars, conv_vars>>

\* lines 510-512 left out: the template is first looked at when
\* LaTeXGenerator.__init__ opens it
CheckTemplateSkipped ==
    /\ pc = "check_template"
    /\ pc' = "parse"
    /\ UNCHANGED <<args, parsed, students, nrows, dirs_created, idx, latex_files,
                   pdf_files, success_count, pdf_success_count, runs, outcome,
                   exit_code, summary>>
    /\ UNCHANGED <<parse_vars, conv_vars>>

\* lines 510-512
CheckTemplate ==
    /\ pc = "check_template"
    /\ IF ~args.template_exists
       THEN Exit(1)
       ELSE pc' = "parse" /\ UNCHANGED exit_code
    /\ UNCHANGED <<args, parsed, students, nrows, dirs_created, idx, latex_files,
                   pdf_files, success_count, pdf_success_count, runs, outcome,
                   summary>>
    /\ UNCHANGED <<parse_vars, conv_vars>>

\* lines 517-526 and 596-600: parse, get_student_data on the rows of the file,
\* then return when no student qualifies; KeyError goes to the outer handler
ParseAndGetStudents ==
    /\ pc = "parse"
    /\ \E df \in SeqsUpTo(Rows(args.columns, FALSE), MaxRows) :
         LET questions == ExtractQuestions(args.columns)
         IN /\ parsed' = TRUE
            /\ nrows' = Len(df)
            /\ IF GetStudentDataRaises(df, args.columns, args.limit)
               THEN Exit(1) /\ UNCHANGED students
               ELSE /\ students' = GetStudentData(df, args.columns, questions, args.limit)
                    /\ IF students' = <<>>
                       THEN Exit(0)
                       ELSE pc' = "new_generator" /\ UNCHANGED exit_code
    /\ UNCHANGED <<args, dirs_created, idx, latex_files, pdf_files, success_count,
                   pdf_success_count, runs, outcome, summary>>
    /\ UNCHANGED <<parse_vars, conv_vars>>

\* line 535 (LaTeXGenerator.__init__) and lines 537-538
NewGenerator ==
    /\ pc = "new_generator"
    /\ dirs_created' = TRUE
    /\ success_count' = 0
    /\ pdf_success_count' = 0
    /\ idx' = 1
    /\ pc' = "loop"
    /\ UNCHANGED <<args, parsed, students, nrows, latex_files, pdf_files, runs,
                   outcome, exit_code, summary>>
    /\ UNCHANGED <<parse_vars, conv_vars>>

\* the loop moves to the next student, or leaves after the last
NextStudent(tag) ==
    /\ outcome' = Append(outcome, tag)
    /\ idx' = idx + 1
    /\ pc' = IF idx + 1 > Len(students) THEN "summary" ELSE "loop"

\* lines 566 and 577-580: generate_latex_file raises; the handler of the loop
\* catches it.  sanitize_filename raises TypeError on a missing name; open or
\* write can fail (OSError), the latter after the file was truncated.
GenerateRaises ==
    /\ pc = "loop"
    /\ LET student == students[idx]
       IN \/ /\ student.name = NA
             /\ UNCHANGED latex_files
          \/ /\ student.name # NA
             /\ \/ UNCHANGED latex_files
                \/ latex_files' = WriteFile(latex_files, TexName(student),
                                            Truncated(idx, student))
    /\ NextStudent("error")
    /\ UNCHANGED <<args, parsed, students, nrows, dirs_created, pdf_files,
                   success_count, pdf_success_count, runs, exit_code, summary>>
    /\ UNCHANGED <<parse_vars, conv_vars>>

\* lines 566-570: the file is written and counted
Generate ==
    /\ pc = "loop"
    /\ LET student == students[idx]
       IN /\ student.name # NA
          /\ latex_files' = WriteFile(latex_files, TexName(student),
                                      Document(idx, student))
    /\ success_count' = success_count + 1
    /\ IF args.no_pdf
       THEN NextStudent("generated") /\ UNCHANGED runs
       ELSE pc' = "compile" /\ runs' = <<>> /\ UNCHANGED <<idx, outcome>>
    /\ UNCHANGED <<args, parsed, students, nrows, dirs_created, pdf_files,
                   pdf_success_count, exit_code, summary>>
    /\ UNCHANGED <<parse_vars, conv_vars>>

\* what one subprocess.run of pdflatex can do: return (the exit status is
\* not looked at), or raise TimeoutExpired or FileNotFoundError
Fatal == {"timeout", "not_found"}

\* lines 426-433: one pass of the loop, the compiler returns
Invoke ==
    /\ pc = "compile"
    /\ Len(runs) < 2
    /\ runs' = Append(runs, "returned")
    /\ UNCHANGED <<pc, args, parsed, students, nrows, dirs_created, idx,
                   latex_files, pdf_files, success_count, pdf_success_count,
                   outcome, exit_code, summary>>
    /\ UNCHANGED <<parse_vars, conv_vars>>

\* lines 458-463 with the failed invocation tried again
InvokeRaisesRetried ==
    /\ pc = "compile"
    /\ Len(runs) < 2
    /\ \E e \in Fatal : runs' = Append(runs, e)
    /\ UNCHANGED <<pc, idx, outcome>>
    /\ UNCHANGED <<args, parsed, students, nrows, dirs_created, latex_files,
                   pdf_files, success_count, pdf_success_count, exit_code,
                   summary>>
    /\ UNCHANGED <<parse_vars, conv_vars>>

\* lines 458-463: subprocess.run raises; compile_pdf returns False
InvokeRaises ==
    /\ pc = "compile"
    /\ Len(runs) < 2
    /\ \E e \in Fatal : runs' = Append(runs, e)
    /\ NextStudent("raised")
    /\ UNCHANGED <<args, parsed, students, nrows, dirs_created, latex_files,
                   pdf_files, success_count, pdf_success_count, exit_code,
                   summary>>
    /\ UNCHANGED <<parse_vars, conv_vars>>

\* lines 435-456 and 571-572: after the two passes the PDF is there (moved to
\* pdf_dir, counted) or not
CheckPdf ==
    /\ pc = "compile"
    /\ Len(runs) = 2
    /\ \E exists \in BOOLEAN :
         IF exists
         THEN /\ pdf_files' = pdf_files \cup {PdfName(students[idx])}
              /\ pdf_success_count' = pdf_success_count + 1
              /\ NextStudent("compiled")
         ELSE /\ UNCHANGED <<pdf_files, pdf_success_count>>
              /\ NextStudent("generated")
    /\ UNCHANGED <<args, parsed, students, nrows, dirs_created, latex_files,
                   success_count, runs, exit_code, summary>>
    /\ UNCHANGED <<parse_vars, conv_vars>>

\* lines 582-594 with the totals taken from the rows of the input
SummaryOfRows ==
    /\ pc = "summary"
    /\ summary' = [generated |-> success_count, compiled |-> pdf_success_count,
                   total |-> nrows, shown |-> TRUE]
    /\ Exit(0)
    /\ UNCHANGED <<args, parsed, students, nrows, dirs_created, idx, latex_files,
                   pdf_files, success_count, pdf_success_count, runs, outcome>>
    /\ UNCHANGED <<parse_vars, conv_vars>>

\* lines 582-594: the summary panel; main returns
Summary ==
    /\ pc = "summary"
    /\ summary' = [generated |-> success_count, compiled |-> pdf_success_count,
                   total |-> Len(students), shown |-> TRUE]
    /\ Exit(0)
    /\ UNCHANGED <<args, parsed, students, nrows, dirs_created, idx, latex_files,
                   pdf_files, success_count, pdf_success_count, runs, outcome>>
    /\ UNCHANGED <<parse_vars, conv_vars>>

MainNext ==
    \/ CheckCsv
    \/ CheckTemplate
    \/ ParseAndGetStudents
    \/ NewGenerator
    \/ GenerateRaises
    \/ Generate
    \/ Invoke
    \/ InvokeRaises
    \/ CheckPdf
    \/ Summary

(***************************************************************************)
(* Specifications                                                          *)
(***************************************************************************)
ParseIdle ==
    /\ p_pc = "idle" /\ p_columns = <<>> /\ p_df = <<>> /\ p_limit = NoLimit
    /\ p_questions = <<>> /\ p_students = <<>>

ConvIdle ==
    /\ c_pc = "idle" /\ c_in = <<>> /\ c_out = <<>> /\ c_out2 = <<>>

Init == MainInit /\ ParseIdle /\ ConvIdle

Next == MainNext

Spec == Init /\ [][Next]_vars

(***************************************************************************)
(* SpecParse: parse() and get_student_data() on a bounded data frame       *)
(***************************************************************************)
\* an ItemID column whose group does not match, then a valid group
H_Broken == <<L_Name, L_ID, L_ItemID, L_Other>> \o Group(L_Q1)

ParseHeaders == {H_One, H_Two, H_NoName, H_Broken}
ParseLimits == {NoLimit} \cup {Limit(n) : n \in 0..MaxDfRows}

ParseInit ==
    /\ p_pc = "init"
    /\ p_columns \in ParseHeaders
    /\ p_df \in SeqsUpTo(Rows(p_columns, TRUE), MaxDfRows)
    /\ p_limit \in ParseLimits
    /\ p_questions = <<>>
    /\ p_students = <<>>

MainIdle ==
    /\ pc = "idle" /\ args = <<>> /\ parsed = FALSE /\ students = <<>>
    /\ nrows = 0 /\ dirs_created = FALSE /\ idx = 0 /\ latex_files = {}
    /\ pdf_files = {} /\ success_count = 0 /\ pdf_success_count = 0
    /\ runs = <<>> /\ outcome = <<>> /\ exit_code = -1 /\ summary = <<>>

\* parse(): lines 221-226
P_Parse ==
    /\ p_pc = "init"
    /\ p_questions' = ExtractQuestions(p_columns)
    /\ p_pc' = "parsed"
    /\ UNCHANGED <<p_columns, p_df, p_limit, p_students, main_vars, conv_vars>>

\* get_student_data(limit): lines 264-310
P_GetStudentData ==
    /\ p_pc = "parsed"
    /\ ~GetStudentDataRaises(p_df, p_columns, p_limit)
    /\ p_students' = GetStudentData(p_df, p_columns, p_questions, p_limit)
    /\ p_pc' = "done"
    /\ UNCHANGED <<p_columns, p_df, p_limit, p_questions, main_vars, conv_vars>>

\* row['Name'] raises KeyError
P_GetStudentDataRaises ==
    /\ p_pc = "parsed"
    /\ GetStudentDataRaises(p_df, p_columns, p_limit)
    /\ p_pc' = "raised"
    /\ UNCHANGED <<p_columns, p_df, p_limit, p_questions, p_students, main_vars,
                   conv_vars>>

ParseNext == P_Parse \/ P_GetStudentData \/ P_GetStudentDataRaises

InitParse == MainIdle /\ ParseInit /\ ConvIdle

SpecParse == InitParse /\ [][ParseNext]_vars

(***************************************************************************)
(* Claims on SpecParse                                                     *)
(***************************************************************************)
\* the rows get_student_data iterated over
P_Rows == RowsToProcess(p_df, p_limit)

\* the three conditions, read off the cells of the row: ItemType is exactly
\* essay, Status exactly Graded, the answer neither missing nor all blanks
Qualifies(row, q) ==
    /\ row[q.item_type_col + 1] = <<"essay">>
    /\ row[q.status_col + 1] = <<"Graded">>
    /\ row[q.question_col + 1] # NA
    /\ \E k \in 1..Len(row[q.question_col + 1]) :
           ~IsSpace(row[q.question_col + 1][k])

\* the registered groups of a row that qualify
QualifyingGroups(row) ==
    {g \in 1..Len(p_questions) : Qualifies(row, p_questions[g])}

\* the rows that have a qualifying group
QualifyingRows == {k \in 1..Len(P_Rows) : QualifyingGroups(P_Rows[k]) # {}}

\* the j-th of them
NthQualifyingRow(j) ==
    CHOOSE k \in QualifyingRows :
        Cardinality({k2 \in QualifyingRows : k2 < k}) = j - 1

\* the m-th qualifying group of a row, by column position
NthQualifyingGroup(row, m) ==
    CHOOSE g \in QualifyingGroups(row) :
        Cardinality({g2 \in QualifyingGroups(row) :
                        p_questions[g2].status_col < p_questions[g].status_col})
            = m - 1

\* C2: for every data row, the AnsweredQuestions returned are exactly the
\* registered groups with ItemType essay, Status Graded and a non-blank
\* answer, in left-to-right column order; no other group is included.
C2_AnsweredQuestionsAreQualifyingGroupsInOrder ==
    p_pc = "done" =>
        /\ Len(p_students) = Cardinality(QualifyingRows)
        /\ \A j \in 1..Len(p_students) :
             LET row == P_Rows[NthQualifyingRow(j)]
                 qs == p_students[j].questions
             IN /\ Len(qs) = Cardinality(QualifyingGroups(row))
                /\ \A m \in 1..Len(qs) :
                     LET q == p_questions[NthQualifyingGroup(row, m)]
                     IN /\ qs[m].question_text = p_columns[q.question_col + 1]
                        /\ qs[m].answer = row[q.question_col + 1]

\* a row with two registered groups of which only the second qualifies, the
\* first failing on Status alone, and its one-question student returned
C2_Witness ==
    /\ p_pc = "done"
    /\ p_columns = H_Two
    /\ Len(p_df) = 1
    /\ p_df[1][4] = <<"essay">> /\ p_df[1][5] = <<"a", Space>>
    /\ p_df[1][7] = <<"Ungraded">>
    /\ Len(p_students) = 1
    /\ Len(p_students[1].questions) = 1
    /\ p_students[1].questions[1].question_text = L_Q2

\* the first n data rows of the input
FirstRows(n) == 1..(IF n < Len(p_df) THEN n ELSE Len(p_df))

\* student st was built from data row k
BuiltFrom(st, k) ==
    /\ st.name = p_df[k][ColumnOf(p_columns, L_Name)]
    /\ st.id = p_df[k][ColumnOf(p_columns, L_ID)]
    /\ QualifyingGroups(p_df[k]) # {}

\* C11: with a row cap n >= 0, n = 0 included, at most n students are
\* returned and each of them was built from one of the first n data rows.
C11_RowCap ==
    (p_pc = "done" /\ p_limit.given /\ p_limit.n >= 0) =>
        /\ Len(p_students) <= p_limit.n
        /\ \A j \in 1..Len(p_students) :
             \E k \in FirstRows(p_limit.n) : BuiltFrom(p_students[j], k)

\* the labels of a column group match at 0-based column i
ValidGroupAt(columns, i) ==
    /\ i + 4 < Len(columns)
    /\ StartsWith(columns[i + 1], L_ItemID)
    /\ StartsWith(columns[i + 2], L_ItemType)
    /\ StartsWith(columns[i + 4], L_Points)
    /\ StartsWith(columns[i + 5], L_Status)

\* an ItemID column with four more columns after it whose labels do not match
BrokenGroupAt(columns, j) ==
    /\ j + 4 < Len(columns)
    /\ StartsWith(columns[j + 1], L_ItemID)
    /\ ~ValidGroupAt(columns, j)

\* C12: the scan moves on by 1 from an ItemID column whose labels do not
\* match, so a valid column group that starts 1 to 4 columns after such a
\* column (no valid group starting before it) is registered under its Status
\* column.
C12_GroupAfterBrokenGroupRegistered ==
    p_pc # "init" =>
        \A j \in 0..(Len(p_columns) - 1) : \A d \in 1..4 :
            (/\ BrokenGroupAt(p_columns, j)
             /\ ValidGroupAt(p_columns, j + d)
             /\ \A i \in 0..(j + d - 1) : ~ValidGroupAt(p_columns, i))
                => \E g \in 1..Len(p_questions) :
                       p_questions[g].status_col = j + d + 4

(***************************************************************************)
(* Claims on Spec                                                          *)
(***************************************************************************)
Generated == {i \in 1..Len(outcome) : outcome[i] # "error"}
Compiled == {i \in 1..Len(outcome) : outcome[i] = "compiled"}
\* students for which neither generation nor compilation raised
Unfailing == {i \in 1..Len(outcome) : outcome[i] \in {"generated", "compiled"}}

DistinctNames ==
    \A i, j \in 1..Len(students) : i # j => students[i].name # students[j].name

\* C1: after the batch, every student with an AnsweredQuestion has a document
\* of their own under their sanitized name, and two of them never share one
\* (stated for the batches of students of different names in which no
\* generation failed).
C1_OneDocumentPerQualifyingStudent ==
    (summary.shown /\ success_count = Len(students) /\ DistinctNames) =>
        /\ \A i \in 1..Len(students) :
             \E f \in latex_files :
                 f.name = TexName(students[i]) /\ f.content.student = i
        /\ Cardinality(latex_files) = Len(students)

\* C7: the loop handles every student whatever the others did, and what the
\* students that did not fail leave behind (counters, files) is what the list
\* without the failing students would have left.
C7_FailureIsolation ==
    (summary.shown /\ DistinctNames) =>
        /\ Len(outcome) = Len(students)
        /\ success_count = Cardinality(Generated)
        /\ pdf_success_count = Cardinality(Compiled)
        /\ \A i \in Unfailing :
             \E f \in latex_files :
                 /\ f.name = TexName(students[i])
                 /\ f.content.student \in Unfailing
                 /\ f.content.complete
                 /\ \A j \in Unfailing :
                        TexName(students[j]) = f.name => j <= f.content.student

RunsInv ==
    /\ Len(runs) <= 2
    /\ \A k \in 1..(Len(runs) - 1) : runs[k] \notin Fatal
    /\ pc = "compile" => \A k \in 1..Len(runs) : runs[k] \notin Fatal
    /\ pc = "compile" => idx \in 1..Len(students) /\ Len(outcome) = idx - 1
    /\ success_count = Cardinality(Generated) + (IF pc = "compile" THEN 1 ELSE 0)
    /\ pdf_success_count = Cardinality(Compiled)

\* a step that invokes the compiler
Invocation == runs' # runs /\ runs' # <<>>

RunsStep ==
    /\ Invocation =>
         /\ pc = "compile"
         /\ Len(runs') = Len(runs) + 1
         /\ SubSeq(runs', 1, Len(runs)) = runs
    /\ (Invocation /\ runs'[Len(runs')] \in Fatal) =>
         /\ pc' # "compile"
         /\ idx' = idx + 1
         /\ pc' = (IF idx < Len(students) THEN "loop" ELSE "summary")
         /\ outcome' = Append(outcome, "raised")
         /\ success_count' = success_count
         /\ pdf_success_count' = pdf_success_count
         /\ pdf_files' = pdf_files
         /\ exit_code' = exit_code

\* C8: a compile_pdf call invokes the compiler at most twice, one invocation
\* after the other; an invocation that times out or finds no compiler is the
\* last of the call, which returns False: the document stays counted as
\* generated, the compiled counter does not move, and the loop goes on to the
\* next student (or to the summary after the last).
C8_CompilerFailureNotRetried == []RunsInv /\ [][RunsStep]_vars

\* the second pass timed out for the first of two students
C8_Witness ==
    /\ runs = <<"returned", "timeout">>
    /\ pc = "loop" /\ idx = 2 /\ Len(students) = 2
    /\ outcome = <<"raised">>
    /\ success_count = 1 /\ pdf_success_count = 0

\* C9: with the input file or the template missing, main only ever checks and
\* exits with status 1: nothing is parsed, no directory made, no document
\* written, no compiler invoked.
C9_FatalConfigAbortsBeforeProcessing ==
    (~args.csv_exists \/ ~args.template_exists) =>
        /\ pc \in {"check_csv", "check_template", "exit"}
        /\ pc = "check_template" => args.csv_exists
        /\ pc = "exit" => exit_code = 1
        /\ pc # "exit" => exit_code = -1
        /\ ~parsed /\ ~dirs_created
        /\ students = <<>>
        /\ latex_files = {} /\ pdf_files = {}
        /\ runs = <<>> /\ outcome = <<>>
        /\ ~summary.shown

\* the input is there, the template is not, and main has exited
C9_Witness ==
    /\ args.csv_exists /\ ~args.template_exists
    /\ pc = "exit" /\ exit_code = 1 /\ ~parsed

\* the scenario of C10: one column group, two rows, the first with a graded
\* essay answer, the second not (so one student), no row cap
Scenario ==
    /\ args.columns = H_One /\ args.limit = NoLimit
    /\ nrows = 2 /\ Len(students) = 1

\* C10 as claimed: in the scenario, the document being written, the summary
\* reads 1 of 2, the number of rows of the input.
C10_SummaryAgainstInputRows ==
    (summary.shown /\ Scenario /\ outcome[1] # "error") =>
        summary.generated = 1 /\ summary.total = nrows

\* C10 amended: the summary counts the documents generated against the
\* students get_student_data returned; in the scenario it reads 1 of 1 when
\* the document is written, the latex directory then holds that one document
\* with the single section numbered 1, and no document is the second row's.
C10_SummaryAgainstStudents ==
    /\ summary.shown =>
         /\ summary.total = Len(students)
         /\ summary.generated = Cardinality(Generated)
         /\ summary.compiled = Cardinality(Compiled)
    /\ \A f \in latex_files : f.content.student \in 1..Len(students)
    /\ (summary.shown /\ Scenario) =>
         /\ summary.total = 1
         /\ summary.generated = (IF outcome[1] = "error" THEN 0 ELSE 1)
         /\ outcome[1] # "error" =>
              /\ Cardinality(latex_files) = 1
              /\ \A f \in latex_files :
                   /\ f.content.student = 1
                   /\ Len(f.content.sections) = 1
                   /\ f.content.sections[1].number = 1

C10_Witness ==
    /\ summary.shown /\ Scenario
    /\ summary.generated = 1 /\ summary.total = 1
    /\ Cardinality(latex_files) = 1

(***************************************************************************)
(* SpecConv: html_to_latex on bounded inputs, then on its own output       *)
(***************************************************************************)
\* plain inputs: reserved characters, and numbered markers
PlainChars == {"a", Space, "&", "{", "$", "_"}
NumberedChars == {"1", ".", Space, "a"}
\* the example of the specification
DoABC ==
    <<"1", ".", Space, "D", "o", Space, "A", ".", Space,
      "2", ".", Space, "D", "o", Space, "B", ".", Space,
      "3", ".", Space, "D", "o", Space, "C", ".">>
\* two lines, each indented by four spaces or not
IndentedLines == {<<"a">>, FourSpaces \o <<"b">>}
IndentedTexts == {l1 \o <<NL>> \o l2 : l1, l2 \in IndentedLines}
X2 == <<"x", "^", "2">>
NodeChoices ==
    {T(<<"a">>), T(<<"n", "^", "2">>), Tag("sup", <<"2">>), Tag("b", <<"a">>),
     Img(FALSE, X2, <<>>)}
    \cup {Img(TRUE, dec, title) : dec \in {<<>>, X2}, title \in {<<>>, X2, <<"y">>}}

\* the node lists a parse can give: a tag somewhere, no two text nodes in a row
HtmlDocs ==
    {d \in SeqsUpTo(NodeChoices, MaxNodes) \ {<<>>} :
        /\ \E i \in 1..Len(d) : d[i].kind # "text"
        /\ \A i \in 1..(Len(d) - 1) : ~(d[i].kind = "text" /\ d[i + 1].kind = "text")}
    \cup {<<T(<<"a">>), im, T(<<"b">>)>> :
            im \in {Img(TRUE, X2, <<>>), Img(TRUE, <<>>, X2), Img(TRUE, <<>>, <<>>)}}
    \cup {<<P(<<T(<<"a">>), Img(TRUE, X2, <<>>)>>), P(<<T(<<"b">>)>>)>>}

ConvInputs ==
    {PlainInput(t, q) : t \in SeqsUpTo(PlainChars, MaxPlainLen)
                              \cup SeqsUpTo(NumberedChars, MaxNumLen)
                              \cup {DoABC} \cup IndentedTexts,
                        q \in BOOLEAN}
    \cup {HtmlInput(d, q) : d \in HtmlDocs, q \in BOOLEAN}

ConvInit ==
    /\ c_pc = "init"
    /\ c_in \in ConvInputs
    /\ c_out = <<>>
    /\ c_out2 = <<>>

\* html_to_latex(html_content, is_question)
C_Convert ==
    /\ c_pc = "init"
    /\ c_out' = html_to_latex(c_in)
    /\ c_pc' = "once"
    /\ UNCHANGED <<c_in, c_out2, main_vars, parse_vars>>

\* html_to_latex applied to the output (which holds no '<')
C_Reconvert ==
    /\ c_pc = "once"
    /\ ~Contains(c_out, "<")
    /\ c_out2' = html_to_latex(PlainInput(c_out, c_in.is_question))
    /\ c_pc' = "twice"
    /\ UNCHANGED <<c_in, c_out, main_vars, parse_vars>>

ConvNext == C_Convert \/ C_Reconvert

InitConv == MainIdle /\ ParseIdle /\ ConvInit

SpecConv == InitConv /\ [][ConvNext]_vars

(***************************************************************************)
(* Claims on SpecConv                                                      *)
(***************************************************************************)
\* C3: html_to_latex applied to its own output changes nothing: no second
\* escape, no second pair of math delimiters (stated for the plain inputs).
C3_Idempotent == (c_pc = "twice" /\ ~c_in.html) => c_out2 = c_out

\* no backslash, no '$' (and, the input being plain, no '<')
MarkupFree(text) == ~Contains(text, BSL) /\ ~Contains(text, "$")

\* every reserved character replaced by its entry of the table
EscapedByTable(text) ==
    Concat([i \in 1..Len(text) |->
        IF text[i] \in DOMAIN LATEX_SPECIAL_CHARS
        THEN LATEX_SPECIAL_CHARS[text[i]] ELSE <<text[i]>>])

\* C4: for an input free of markup, every reserved character comes out as its
\* entry of LATEX_SPECIAL_CHARS and none stays unescaped (stated for the inputs
\* without blanks or digits, which the earlier steps leave as they are).
C4_AllReservedEscaped ==
    (/\ c_pc # "init" /\ ~c_in.html /\ MarkupFree(c_in.text)
     /\ \A i \in 1..Len(c_in.text) : c_in.text[i] \notin Whitespace \cup Digits)
        => c_out = EscapedByTable(c_in.text)

AllLetters(text) == \A i \in 1..Len(text) : text[i] \in Letters

\* C5: word, embedded-equation image, word: the equation (from
\* data-equation-content, else from title) comes out as one inline-math span
\* with one delimiter on each side between the two words; with neither
\* attribute the image leaves nothing and the words stay apart by one space.
C5_EquationImageIsOneMathSpan ==
    (/\ c_pc # "init" /\ c_in.html /\ Len(c_in.nodes) = 3
     /\ c_in.nodes[1].kind = "text" /\ AllLetters(c_in.nodes[1].text)
     /\ c_in.nodes[2].kind = "img" /\ c_in.nodes[2].eq
     /\ c_in.nodes[3].kind = "text" /\ AllLetters(c_in.nodes[3].text))
        => LET img == c_in.nodes[2]
               latex == IF img.dec # <<>> THEN img.dec ELSE img.title
           IN c_out = c_in.nodes[1].text
                      \o (IF latex = <<>> THEN <<Space>>
                          ELSE <<Space, "$">> \o latex \o <<"$", Space>>)
                      \o c_in.nodes[3].text

\* a numbered marker (digits, a dot, whitespace) starts at position i of s
MarkerAt(s, i) ==
    /\ i \in 1..Len(s) /\ s[i] \in Digits
    /\ i = 1 \/ s[i - 1] \notin Digits
    /\ \E j \in i..Len(s) :
         /\ \A k \in i..j : s[k] \in Digits
         /\ j + 2 <= Len(s) /\ s[j + 1] = "." /\ s[j + 2] \in Whitespace

Markers(s) == {i \in 1..Len(s) : MarkerAt(s, i)}
Count(s, ch) == Cardinality({i \in 1..Len(s) : s[i] = ch})
FirstMarker(s) == CHOOSE i \in Markers(s) : \A j \in Markers(s) : i <= j

\* the line of s that starts at position i (up to the next line break)
LineAt(s, i) == SubSeq(s, i, i + RunLenUntil(SubSeq(s, i, Len(s)), NL) - 1)

\* the plain inputs the steps before and after the numbering leave alone:
\* no blank at either end, no two blanks in a row, no line break, no
\* character that is escaped
Settled(text) ==
    /\ text # <<>> /\ text = Strip(text)
    /\ \A i \in 1..Len(text) :
         /\ text[i] \notin {NL, "&", "%", "$", "#", "_", BSL}
         /\ i < Len(text) => ~(text[i] = Space /\ text[i + 1] = Space)

\* the markers of s that get a line break: all but one at the very start
Broken(s) == {i \in Markers(s) : i > 1}

\* C6 as claimed: a line break before each marker past the first and none
\* before the first, so text before the first marker shares its line: the
\* output begins with the input up to and including the first marker's digit.
C6_NoBreakBeforeFirstMarker ==
    (c_pc # "init" /\ ~c_in.html /\ Settled(c_in.text)
     /\ Markers(c_in.text) # {}) =>
        LET f == FirstMarker(c_in.text)
        IN SubSeq(c_out, 1, f) = SubSeq(c_in.text, 1, f)

\* C6 amended: a line break is put before every marker, the first included;
\* only a break at the very start of the text is taken away again.  So the
\* output is the input with one line break (a blank line in question context)
\* in front of every marker that is not at the very start: every numbered
\* item begins a line of its own, and text before the first marker is on a
\* line of its own before it.  "1. Do A. 2. Do B. 3. Do C." gives the three
\* lines 1. Do A. / 2. Do B. / 3. Do C.
C6_BreakBeforeEveryMarker ==
    (c_pc # "init" /\ ~c_in.html /\ Settled(c_in.text)) =>
        LET u == c_in.text
            k == IF c_in.is_question THEN 2 ELSE 1
            Shift(i) == k * Cardinality({b \in Broken(u) : b <= i})
        IN /\ Len(c_out) = Len(u) + k * Cardinality(Broken(u))
           /\ \A i \in 1..Len(u) : c_out[i + Shift(i)] = u[i]
           /\ \A b \in Broken(u) :
                \A n \in 1..k : c_out[b + Shift(b) - n] = NL
           /\ u = DoABC =>
                /\ ~c_in.is_question =>
                     c_out = SubSeq(DoABC, 1, 9) \o <<NL>> \o SubSeq(DoABC, 10, 18)
                             \o <<NL>> \o SubSeq(DoABC, 19, 26)
                /\ LineAt(c_out, 1) = SubSeq(DoABC, 1, 9)

\* text before the first marker: "a 1. a" comes out as "a " / "1. a"
C6_Witness ==
    /\ c_pc = "once" /\ ~c_in.html /\ ~c_in.is_question
    /\ c_in.text = <<"a", Space, "1", ".", Space, "a">>
    /\ c_out = <<"a", Space, NL, "1", ".", Space, "a">>

\* C13: the exponent pass never doubles a math delimiter: in the output for
\* a rich-text input (equation images, sub/superscript tags, text with bare
\* exponent expressions) no two '$' stand side by side, and a bare n^2 of a
\* text node comes out in exactly one pair of delimiters.
C13_NoDoubledDelimiters ==
    (c_pc # "init" /\ c_in.html) =>
        /\ \A i \in 1..(Len(c_out) - 1) : ~(c_out[i] = "$" /\ c_out[i + 1] = "$")
        /\ c_in.nodes = <<T(<<"n", "^", "2">>), Tag("b", <<"a">>)>> =>
             SubSeq(c_out, 1, 5) = <<"$", "n", "^", "2", "$">>

\* the line as the algorithm block should give it: a leading run of exactly
\* four spaces turned into the spacing command
Indented(line) ==
    IF Len(line) > 4 /\ SubSeq(line, 1, 4) = <<Space, Space, Space, Space>>
       /\ line[5] # Space
    THEN <<BSL, "q", "u", "a", "d", Space>> \o SubSeq(line, 5, Len(line))
    ELSE line

\* C14: in question context, a plain text of two lines comes out as the two
\* lines a blank line apart, and a line that begins with exactly four spaces
\* has them turned into \quad (stated for a first line that is not indented:
\* the indentation of the first line of a text goes with the stripping).
C14_IndentationBecomesQuad ==
    (c_pc # "init" /\ ~c_in.html /\ c_in.is_question) =>
        \A l2 \in IndentedLines :
            c_in.text = <<"a", NL>> \o l2 =>
                c_out = <<"a", NL, NL>> \o Indented(l2)

====
